---- MODULE Spec2Model ----
(***************************************************************************)
(* A model of mbdvr's in-memory core: ClipDataset (package clipper),       *)
(* CleanDataset and its numeric primitives (package cleaner) and           *)
(* ComputeStats (package stats), acting on a types.Dataset.                *)
(*                                                                         *)
(* dataset, call and ret are the dataset the caller passes, the call it    *)
(* made and what the call returned.  SpecClip, SpecClean, SpecOutlier,     *)
(* SpecStats and SpecRobust pass datasets by value; SpecHeap lays them out *)
(* in heap, Go's memory of arrays, maps and Dataset structs, where slices  *)
(* may share an array and dataset is a pointer.                            *)
(* SpecMoments takes the mean and the standard deviation of a column as    *)
(* ComputeStats and as the cleaner take them, with float64's rounding      *)
(* after every operation.                                                  *)
(*                                                                         *)
(* float64 values are records: [k, n, d] with k "fin" (the rational n/d in  *)
(* lowest terms, d > 0), "nan", "pinf" or "ninf", and [k, a, s, r] with k  *)
(* "surd" for a + s * sqrt(r), the shape of a z-score bound.  Outside      *)
(* SpecMoments arithmetic is exact.  Every finite value the model draws is *)
(* a small integer: the                                                    *)
(* percentiles and IQR bounds derived from them are dyadic rationals,      *)
(* which float64 computes exactly, and a z-score bound either is computed  *)
(* exactly by float64 (a dyadic mean with a rational square root) or is    *)
(* irrational, and then differs from every value it is compared with by    *)
(* far more than float64's rounding.  So each comparison the code makes    *)
(* has, on these inputs, the outcome the exact arithmetic gives.  The      *)
(* statistics of ComputeStats are exact rationals and surds as well; what  *)
(* is stated of them is their keys, their counts and their equality with   *)
(* the same computation made elsewhere.                                    *)
(***************************************************************************)
EXTENDS Integers, Sequences, FiniteSets

VARIABLES dataset, call, ret, heap

vars == <<dataset, call, ret, heap>>

-----------------------------------------------------------------------------
(* Bounds of the model *)

MaxClipPoints == 3

MaxT == 4

MaxCleanPoints == 3

MaxValue == 1

MaxStatsPoints == 2

MaxRobustPoints == 3

MaxOutlierPoints == 4

MaxHeapPoints == 2

MaxCalls == 2

MaxMomentPoints == 3

\* bits of the significand of a float64 where its rounding is modelled
Precision == 4

-----------------------------------------------------------------------------
(* float64 *)

F(i) == [k |-> "fin", n |-> i, d |-> 1]

NaN == [k |-> "nan", n |-> 0, d |-> 1]

PosInf == [k |-> "pinf", n |-> 0, d |-> 1]

NegInf == [k |-> "ninf", n |-> 0, d |-> 1]

IsNaN(a) == a.k = "nan"

\* a + s * sqrt(r) for rationals a, s and r >= 0: the float64 the code gets
\* from math.Sqrt, kept exact
Surd(a, s, r) == [k |-> "surd", a |-> a, s |-> s, r |-> r]

\* u < s * sqrt(r) for rationals u, s, r, by squaring
LtRoot(u, s, r) ==
    LET uu == u.n * u.n * s.d * s.d * r.d
        ssr == s.n * s.n * r.n * u.d * u.d
    IN  IF s.n >= 0
        THEN IF u.n < 0 THEN TRUE ELSE uu < ssr
        ELSE IF u.n >= 0 THEN FALSE ELSE uu > ssr

\* u > s * sqrt(r) for rationals u, s, r, by squaring
GtRoot(u, s, r) ==
    LET uu == u.n * u.n * s.d * s.d * r.d
        ssr == s.n * s.n * r.n * u.d * u.d
    IN  IF s.n >= 0
        THEN IF u.n <= 0 THEN FALSE ELSE uu > ssr
        ELSE IF u.n >= 0 THEN u.n > 0 \/ ssr > 0 ELSE uu < ssr

RECURSIVE GCD(_, _)
GCD(a, b) == IF b = 0 THEN a ELSE GCD(b, a % b)

\* the rational n/d, d > 0, in lowest terms
Ratio(n, d) ==
    LET g == GCD(IF n < 0 THEN -n ELSE n, d)
    IN  [k |-> "fin", n |-> n \div g, d |-> d \div g]

RSub(a, b) == Ratio(a.n * b.d - b.n * a.d, a.d * b.d)

RAdd(a, b) == Ratio(a.n * b.d + b.n * a.d, a.d * b.d)

RMul(a, b) == Ratio(a.n * b.n, a.d * b.d)

\* a < b on float64: false as soon as one side is NaN
FLt(a, b) ==
    /\ a.k # "nan"
    /\ b.k # "nan"
    /\ CASE a.k = "fin" /\ b.k = "surd" -> LtRoot(RSub(a, b.a), b.s, b.r)
         [] a.k = "surd" /\ b.k = "fin" -> GtRoot(RSub(b, a.a), a.s, a.r)
         [] a.k = "pinf" -> FALSE
         [] a.k = "ninf" -> b.k # "ninf"
         [] b.k = "pinf" -> TRUE
         [] b.k = "ninf" -> FALSE
         [] OTHER -> a.n * b.d < b.n * a.d

\* a == b on float64: NaN equals nothing
FEq(a, b) ==
    /\ a.k # "nan"
    /\ b.k # "nan"
    /\ IF a.k = "fin" /\ b.k = "fin" THEN a.n * b.d = b.n * a.d ELSE a.k = b.k

FGt(a, b) == FLt(b, a)

FLe(a, b) == FLt(a, b) \/ FEq(a, b)

FGe(a, b) == FLe(b, a)

\* a - b on float64
FSub(a, b) ==
    CASE a.k = "nan" \/ b.k = "nan" -> NaN
      [] a.k = "fin" /\ b.k = "fin" -> RSub(a, b)
      [] a.k = "fin" /\ b.k = "surd" -> Surd(RSub(a, b.a), RSub(F(0), b.s), b.r)
      [] a.k = "fin" -> IF b.k = "pinf" THEN NegInf ELSE PosInf
      [] b.k = "fin" -> a
      [] OTHER -> IF a.k = b.k THEN NaN ELSE a

IsInf(a) == a.k \in {"pinf", "ninf"}

\* -1, 0 or 1: the sign of a rational, an infinity or a square root
Sign(a) ==
    CASE a.k = "pinf" -> 1
      [] a.k = "ninf" -> -1
      [] a.k = "surd" -> IF a.r.n > 0 THEN 1 ELSE 0
      [] OTHER -> IF a.n > 0 THEN 1 ELSE IF a.n < 0 THEN -1 ELSE 0

\* a + b on float64, for a not a square root
FAdd(a, b) ==
    CASE a.k = "nan" \/ b.k = "nan" -> NaN
      [] IsInf(a) /\ IsInf(b) -> IF a.k = b.k THEN a ELSE NaN
      [] IsInf(a) -> a
      [] IsInf(b) -> b
      [] b.k = "surd" -> Surd(RAdd(a, b.a), b.s, b.r)
      [] OTHER -> RAdd(a, b)

\* a * b on float64, for a not a square root, and b a rational, an infinity
\* or a square root sqrt(r)
FMul(a, b) ==
    CASE a.k = "nan" \/ b.k = "nan" -> NaN
      [] IsInf(a) \/ IsInf(b) ->
            IF Sign(a) * Sign(b) = 0 THEN NaN
            ELSE IF Sign(a) * Sign(b) > 0 THEN PosInf ELSE NegInf
      [] b.k = "surd" -> Surd(RMul(a, b.a), RMul(a, b.s), b.r)
      [] OTHER -> RMul(a, b)

\* a / float64(m) on float64, for a not a square root and an int m > 0
FDivInt(a, m) ==
    IF a.k = "nan" THEN NaN ELSE IF IsInf(a) THEN a ELSE Ratio(a.n, a.d * m)

\* math.Sqrt(a), for a not a square root
Sqrt(a) ==
    CASE a.k = "nan" \/ a.k = "ninf" -> NaN
      [] a.k = "pinf" -> PosInf
      [] OTHER -> IF a.n < 0 THEN NaN ELSE Surd(F(0), F(1), a)

\* float64(a) / float64(b) * 100 for ints a >= 0, b >= 0
PercentOf(a, b) ==
    IF b = 0
    THEN IF a = 0 THEN NaN ELSE PosInf
    ELSE Ratio(a * 100, b)

-----------------------------------------------------------------------------
(* types.DataPoint, types.Dataset *)

DataPoint(t, data) ==
    [Timestamp |-> t, Data |-> data, ParticipantID |-> "P1", Condition |-> "c"]

Dataset(points, columns) == [Points |-> points, Columns |-> columns]

\* the CSV header row the loader keeps as Columns
Columns == <<"timestamp", "x", "y">>

\* a map[string]float64 with no entry
NoData == [c \in {} |-> NaN]

\* the sequences of 1 to n elements of S: a loaded file has a data row
SeqsUpTo(S, n) == UNION {[1..m -> S] : m \in 1..n}

-----------------------------------------------------------------------------
(* clipper.ClipDataset *)

Absent == [given |-> FALSE, v |-> NaN]

Some(x) == [given |-> TRUE, v |-> x]

ErrEmpty == "dataset is empty"

ErrStartOutOfBounds == "start time is out of bounds"

ErrEndOutOfBounds == "end time is out of bounds"

ErrInvalidRange == "end time must be greater than start time"

ErrNoData == "no data points found in the specified time range"

EmptyClipInfo ==
    [MinTimestamp |-> F(0), MaxTimestamp |-> F(0), TotalDuration |-> F(0),
     OriginalPoints |-> 0, ClippedPoints |-> 0, StartFrame |-> 0, EndFrame |-> 0,
     ActualStartTime |-> F(0), ActualEndTime |-> F(0)]

\* ScanMinMax with the second test made an "else if"
RECURSIVE ScanMinMaxElseIf(_, _, _)
ScanMinMaxElseIf(points, i, info) ==
    IF i > Len(points)
    THEN info
    ELSE LET t == points[i].Timestamp
             b == IF FLt(t, info.MinTimestamp)
                  THEN [info EXCEPT !.MinTimestamp = t]
                  ELSE IF FGt(t, info.MaxTimestamp)
                       THEN [info EXCEPT !.MaxTimestamp = t]
                       ELSE info
         IN  ScanMinMaxElseIf(points, i + 1, b)

\* the loop of lines 38-45, from index i on
RECURSIVE ScanMinMax(_, _, _)
ScanMinMax(points, i, info) ==
    IF i > Len(points)
    THEN info
    ELSE LET t == points[i].Timestamp
             a == IF FLt(t, info.MinTimestamp) THEN [info EXCEPT !.MinTimestamp = t] ELSE info
             b == IF FGt(t, a.MaxTimestamp) THEN [a EXCEPT !.MaxTimestamp = t] ELSE a
         IN  ScanMinMax(points, i + 1, b)

\* StartOutOfBounds with <= and >= for < and >
StartOutOfBoundsInclusive(start, info) ==
    FLe(start, info.MinTimestamp) \/ FGe(start, info.MaxTimestamp)

StartOutOfBounds(start, info) ==
    FLt(start, info.MinTimestamp) \/ FGt(start, info.MaxTimestamp)

EndOutOfBounds(end, info) ==
    FLt(end, info.MinTimestamp) \/ FGt(end, info.MaxTimestamp)

\* InvalidRange with < for <=
InvalidRangeStrict(startTime, endTime) == FLt(endTime, startTime)

InvalidRange(startTime, endTime) == FLe(endTime, startTime)

\* FindFrames whose end frame is the first sample with t <= endTime, not
\* the last
RECURSIVE FindFramesFirstEnd(_, _, _, _, _)
FindFramesFirstEnd(points, i, startTime, endTime, frames) ==
    IF i > Len(points)
    THEN frames
    ELSE LET t == points[i].Timestamp
             a == IF frames.startFrame = -1 /\ FGe(t, startTime)
                  THEN [frames EXCEPT !.startFrame = i - 1]
                  ELSE frames
             b == IF a.endFrame = -1 /\ FLe(t, endTime)
                  THEN [a EXCEPT !.endFrame = i - 1]
                  ELSE a
         IN  FindFramesFirstEnd(points, i + 1, startTime, endTime, b)

\* FindFrames with > for >= in the start test
RECURSIVE FindFramesExclusive(_, _, _, _, _)
FindFramesExclusive(points, i, startTime, endTime, frames) ==
    IF i > Len(points)
    THEN frames
    ELSE LET t == points[i].Timestamp
             a == IF frames.startFrame = -1 /\ FGt(t, startTime)
                  THEN [frames EXCEPT !.startFrame = i - 1]
                  ELSE frames
             b == IF FLe(t, endTime) THEN [a EXCEPT !.endFrame = i - 1] ELSE a
         IN  FindFramesExclusive(points, i + 1, startTime, endTime, b)

\* the loop of lines 71-80, from index i on; frames are Go's 0-based indices
RECURSIVE FindFrames(_, _, _, _, _)
FindFrames(points, i, startTime, endTime, frames) ==
    IF i > Len(points)
    THEN frames
    ELSE LET t == points[i].Timestamp
             a == IF frames.startFrame = -1 /\ FGe(t, startTime)
                  THEN [frames EXCEPT !.startFrame = i - 1]
                  ELSE frames
             b == IF FLe(t, endTime) THEN [a EXCEPT !.endFrame = i - 1] ELSE a
         IN  FindFrames(points, i + 1, startTime, endTime, b)

\* NoFrames with >= for > in the last test
NoFramesOffByOne(frames) ==
    frames.startFrame = -1 \/ frames.endFrame = -1 \/ frames.startFrame >= frames.endFrame

NoFrames(frames) ==
    frames.startFrame = -1 \/ frames.endFrame = -1 \/ frames.startFrame > frames.endFrame

\* dataset.Points[startFrame : endFrame+1]
Slice(points, startFrame, endFrame) == SubSeq(points, startFrame + 1, endFrame + 1)

\* a nil *types.Dataset, with the info and the error returned beside it
ClipFail(info, err) ==
    [nil |-> TRUE, dataset |-> Dataset(<<>>, <<>>), metadata |-> <<>>,
     info |-> info, err |-> err]

ClipMetadata(info, startTime, endTime) ==
    [original_points |-> info.OriginalPoints,
     clipped_points |-> info.ClippedPoints,
     original_duration |-> info.TotalDuration,
     clipped_duration |-> FSub(info.ActualEndTime, info.ActualStartTime),
     start_time |-> info.ActualStartTime,
     end_time |-> info.ActualEndTime,
     requested_start |-> startTime,
     requested_end |-> endTime]

ClipDataset(ds, config) ==
    IF Len(ds.Points) = 0
    THEN ClipFail(EmptyClipInfo, ErrEmpty)
    ELSE
    LET info0 == [EmptyClipInfo EXCEPT !.OriginalPoints = Len(ds.Points),
                                       !.MinTimestamp = PosInf,
                                       !.MaxTimestamp = NegInf]
        info1 == ScanMinMax(ds.Points, 1, info0)
        info == [info1 EXCEPT !.TotalDuration = FSub(info1.MaxTimestamp, info1.MinTimestamp)]
        startTime == IF config.StartTime.given THEN config.StartTime.v ELSE info.MinTimestamp
        endTime == IF config.EndTime.given THEN config.EndTime.v ELSE info.MaxTimestamp
        frames == FindFrames(ds.Points, 1, startTime, endTime,
                             [startFrame |-> -1, endFrame |-> -1])
        clippedPoints == Slice(ds.Points, frames.startFrame, frames.endFrame)
        clipped == [info EXCEPT
                      !.ClippedPoints = Len(clippedPoints),
                      !.StartFrame = frames.startFrame,
                      !.EndFrame = frames.endFrame,
                      !.ActualStartTime = clippedPoints[1].Timestamp,
                      !.ActualEndTime = clippedPoints[Len(clippedPoints)].Timestamp]
    IN  IF config.StartTime.given /\ StartOutOfBounds(config.StartTime.v, info)
        THEN ClipFail(info, ErrStartOutOfBounds)
        ELSE IF config.EndTime.given /\ EndOutOfBounds(config.EndTime.v, info)
        THEN ClipFail(info, ErrEndOutOfBounds)
        ELSE IF InvalidRange(startTime, endTime)
        THEN ClipFail(info, ErrInvalidRange)
        ELSE IF NoFrames(frames)
        THEN ClipFail(info, ErrNoData)
        ELSE [nil |-> FALSE,
              dataset |-> Dataset(clippedPoints, ds.Columns),
              metadata |-> ClipMetadata(clipped, startTime, endTime),
              info |-> clipped,
              err |-> ""]

-----------------------------------------------------------------------------
(* cleaner.CleanDataset *)

\* p.Data[col] is absent or NaN (line 68)
IsMissing(p, col) == col \notin DOMAIN p.Data \/ IsNaN(p.Data[col])

\* the inner loop of lines 66-71, from column i on
RECURSIVE CountMissing(_, _, _)
CountMissing(p, requiredCols, i) ==
    IF i > Len(requiredCols)
    THEN 0
    ELSE (IF IsMissing(p, requiredCols[i]) THEN 1 ELSE 0) + CountMissing(p, requiredCols, i + 1)

\* MaxMissing that rounds up
MaxMissingCeil(count, maxMissingPercent) ==
    (count * maxMissingPercent.n + maxMissingPercent.d * 100 - 1)
        \div (maxMissingPercent.d * 100)

\* int(math.Floor(float64(count) * maxMissingPercent / 100.0)), for a
\* finite percentage
MaxMissing(count, maxMissingPercent) ==
    (count * maxMissingPercent.n) \div (maxMissingPercent.d * 100)

\* the loop of lines 65-77, from point i on
RECURSIVE FilterMissingFrom(_, _, _, _)
FilterMissingFrom(points, i, requiredCols, maxMissing) ==
    IF i > Len(points)
    THEN [points |-> <<>>, removed |-> 0]
    ELSE LET rest == FilterMissingFrom(points, i + 1, requiredCols, maxMissing)
         IN  IF CountMissing(points[i], requiredCols, 1) <= maxMissing
             THEN [rest EXCEPT !.points = <<points[i]>> \o rest.points]
             ELSE [rest EXCEPT !.removed = rest.removed + 1]

\* filterMissingData with the budget taken from the number of points
filterMissingDataBudgetOfPoints(points, requiredCols, maxMissingPercent) ==
    FilterMissingFrom(points, 1, requiredCols, MaxMissing(Len(points), maxMissingPercent))

\* a filter that forgets to count what it removes
filterMissingDataUncounted(points, requiredCols, maxMissingPercent) ==
    [points |-> FilterMissingFrom(points, 1, requiredCols,
                                  MaxMissing(Len(requiredCols), maxMissingPercent)).points,
     removed |-> 0]

filterMissingData(points, requiredCols, maxMissingPercent) ==
    FilterMissingFrom(points, 1, requiredCols, MaxMissing(Len(requiredCols), maxMissingPercent))

\* the values of col that are present and not NaN, from point i on
RECURSIVE ExtractFrom(_, _, _)
ExtractFrom(points, col, i) ==
    IF i > Len(points)
    THEN <<>>
    ELSE (IF IsMissing(points[i], col) THEN <<>> ELSE <<points[i].Data[col]>>)
         \o ExtractFrom(points, col, i + 1)

extractColumnValues(points, col) == ExtractFrom(points, col, 1)

\* v put in its place in the ascending sequence sorted
RECURSIVE InsertSorted(_, _)
InsertSorted(sorted, v) ==
    IF sorted = <<>>
    THEN <<v>>
    ELSE IF FLe(v, Head(sorted))
         THEN <<v>> \o sorted
         ELSE <<Head(sorted)>> \o InsertSorted(Tail(sorted), v)

\* sort.Float64s on a copy of values
RECURSIVE SortFloat64s(_)
SortFloat64s(values) ==
    IF values = <<>> THEN <<>> ELSE InsertSorted(SortFloat64s(Tail(values)), Head(values))

\* a percentile without interpolation: the element at floor(k)
percentileLower(sorted, p) ==
    IF Len(sorted) = 0 THEN NaN ELSE sorted[((p * (Len(sorted) - 1)) \div 100) + 1]

\* percentile for p a whole number of percent: k = (p/100) * (n-1) is the
\* rational p*(n-1)/100, f its floor and c its ceiling
percentile(sorted, p) ==
    IF Len(sorted) = 0
    THEN NaN
    ELSE LET k100 == p * (Len(sorted) - 1)
             f == k100 \div 100
             c == IF k100 % 100 = 0 THEN f ELSE f + 1
             d0 == FMul(sorted[f + 1], Ratio(100 * c - k100, 100))
             d1 == FMul(sorted[c + 1], Ratio(k100 - 100 * f, 100))
         IN  IF f = c THEN sorted[f + 1] ELSE FAdd(d0, d1)

OneAndAHalf == Ratio(3, 2)

\* the two slices of calculateIQRBounds after lines 151-153: sorted is made,
\* values is copied into it, and sorted is sorted; values is only read
SortedCopy(values) == [values |-> values, sorted |-> SortFloat64s(values)]

calculateIQRBounds(values) ==
    IF Len(values) = 0
    THEN <<NaN, NaN>>
    ELSE LET sorted == SortedCopy(values).sorted
             q1 == percentile(sorted, 25)
             q3 == percentile(sorted, 75)
             iqr == FSub(q3, q1)
         IN  <<FSub(q1, FMul(OneAndAHalf, iqr)), FAdd(q3, FMul(OneAndAHalf, iqr))>>

RECURSIVE Sum(_)
Sum(values) == IF values = <<>> THEN F(0) ELSE FAdd(Head(values), Sum(Tail(values)))

mean(values) == IF Len(values) = 0 THEN NaN ELSE FDivInt(Sum(values), Len(values))

RECURSIVE SumSquaredDeviations(_, _)
SumSquaredDeviations(values, m) ==
    IF values = <<>>
    THEN F(0)
    ELSE LET dev == FSub(Head(values), m)
         IN  FAdd(FMul(dev, dev), SumSquaredDeviations(Tail(values), m))

stdDev(values, m) ==
    IF Len(values) = 0
    THEN NaN
    ELSE Sqrt(FDivInt(SumSquaredDeviations(values, m), Len(values)))

calculateZScoreBounds(values, threshold) ==
    IF Len(values) = 0
    THEN <<NaN, NaN>>
    ELSE LET m == mean(values)
             sd == stdDev(values, m)
         IN  <<FSub(m, FMul(threshold, sd)), FAdd(m, FMul(threshold, sd))>>

\* BoundsBy whose default is the z-score bounds
BoundsByDefaultZScore(method, values, zThreshold) ==
    CASE method = "iqr" -> calculateIQRBounds(values)
      [] method = "zscore" -> calculateZScoreBounds(values, zThreshold)
      [] OTHER -> calculateZScoreBounds(values, zThreshold)

\* the switch of lines 100-107
BoundsBy(method, values, zThreshold) ==
    CASE method = "iqr" -> calculateIQRBounds(values)
      [] method = "zscore" -> calculateZScoreBounds(values, zThreshold)
      [] OTHER -> calculateIQRBounds(values)

\* the map built by lines 90-110: the columns of cols with a value, each with
\* its bounds
OutlierBounds(points, cols, method, zThreshold) ==
    LET withValues == {cols[i] : i \in {j \in 1..Len(cols) :
                                          Len(extractColumnValues(points, cols[j])) # 0}}
    IN  [col \in withValues |->
            BoundsBy(method, extractColumnValues(points, col), zThreshold)]

\* the inner loop of lines 115-124, from column i on
RECURSIVE IsOutlierFrom(_, _, _, _)
IsOutlierFrom(p, cols, i, outlierBounds) ==
    IF i > Len(cols)
    THEN FALSE
    ELSE LET col == cols[i]
         IN  \/ /\ col \in DOMAIN outlierBounds
                /\ col \in DOMAIN p.Data
                /\ \/ FLt(p.Data[col], outlierBounds[col][1])
                   \/ FGt(p.Data[col], outlierBounds[col][2])
             \/ IsOutlierFrom(p, cols, i + 1, outlierBounds)

\* KeepOrDrop that keeps an outlier too, and counts it as removed
KeepOrDropKeepsBoth(p, isOutlier, rest) ==
    IF ~isOutlier
    THEN [rest EXCEPT !.points = <<p>> \o rest.points]
    ELSE [rest EXCEPT !.points = <<p, p>> \o rest.points, !.removed = rest.removed + 1]

\* KeepOrDrop that puts a kept point after the points that follow it
KeepOrDropReversed(p, isOutlier, rest) ==
    IF ~isOutlier
    THEN [rest EXCEPT !.points = rest.points \o <<p>>]
    ELSE [rest EXCEPT !.removed = rest.removed + 1]

\* lines 126-130: the point is appended to filtered, or counted as removed
KeepOrDrop(p, isOutlier, rest) ==
    IF ~isOutlier
    THEN [rest EXCEPT !.points = <<p>> \o rest.points]
    ELSE [rest EXCEPT !.removed = rest.removed + 1]

\* the loop of lines 112-131, from point i on
RECURSIVE FilterOutliersFrom(_, _, _, _)
FilterOutliersFrom(points, i, cols, outlierBounds) ==
    IF i > Len(points)
    THEN [points |-> <<>>, removed |-> 0]
    ELSE KeepOrDrop(points[i], IsOutlierFrom(points[i], cols, 1, outlierBounds),
                    FilterOutliersFrom(points, i + 1, cols, outlierBounds))

filterOutliers(points, cols, method, zThreshold) ==
    IF Len(cols) = 0
    THEN [points |-> points, removed |-> 0]
    ELSE FilterOutliersFrom(points, 1, cols,
                            OutlierBounds(points, cols, method, zThreshold))

CleanMetadata(stats, config) ==
    [original_points |-> stats.OriginalPoints,
     cleaned_points |-> stats.FinalPoints,
     cleaning_config |-> config,
     points_removed |-> stats.OriginalPoints - stats.FinalPoints,
     removal_percentage |->
         PercentOf(stats.OriginalPoints - stats.FinalPoints, stats.OriginalPoints)]

\* MissingFilterEnabled with >= for >
MissingFilterEnabledAtZero(config) == FGe(config.MaxMissingPercent, F(0))

\* line 33
MissingFilterEnabled(config) == FGt(config.MaxMissingPercent, F(0))

\* CleanDataset whose outlier bounds come from the input, not from the
\* samples the missing-data filter left
CleanDatasetBoundsOfInput(ds, config) ==
    LET afterMissing ==
            IF MissingFilterEnabled(config)
            THEN filterMissingData(ds.Points, config.RequiredColumns, config.MaxMissingPercent)
            ELSE [points |-> ds.Points, removed |-> 0]
        afterOutliers ==
            IF config.RemoveOutliers /\ Len(config.RequiredColumns) # 0
            THEN FilterOutliersFrom(afterMissing.points, 1, config.RequiredColumns,
                                    OutlierBounds(ds.Points, config.RequiredColumns,
                                                  config.OutlierMethod,
                                                  config.ZScoreThreshold))
            ELSE [points |-> afterMissing.points, removed |-> 0]
        stats == [OriginalPoints |-> Len(ds.Points),
                  RemovedMissing |-> afterMissing.removed,
                  RemovedOutliers |-> afterOutliers.removed,
                  FinalPoints |-> Len(afterOutliers.points)]
    IN  [nil |-> FALSE,
         dataset |-> Dataset(afterOutliers.points, ds.Columns),
         metadata |-> CleanMetadata(stats, config),
         stats |-> stats,
         err |-> ""]

CleanDataset(ds, config) ==
    LET afterMissing ==
            IF MissingFilterEnabled(config)
            THEN filterMissingData(ds.Points, config.RequiredColumns, config.MaxMissingPercent)
            ELSE [points |-> ds.Points, removed |-> 0]
        afterOutliers ==
            IF config.RemoveOutliers
            THEN filterOutliers(afterMissing.points, config.RequiredColumns,
                                config.OutlierMethod, config.ZScoreThreshold)
            ELSE [points |-> afterMissing.points, removed |-> 0]
        stats == [OriginalPoints |-> Len(ds.Points),
                  RemovedMissing |-> afterMissing.removed,
                  RemovedOutliers |-> afterOutliers.removed,
                  FinalPoints |-> Len(afterOutliers.points)]
    IN  [nil |-> FALSE,
         dataset |-> Dataset(afterOutliers.points, ds.Columns),
         metadata |-> CleanMetadata(stats, config),
         stats |-> stats,
         err |-> ""]

-----------------------------------------------------------------------------
(* The numeric primitives of the cleaner, called on the values of a column *)

\* a call of one of clean.go's numeric primitives on values: the float64s it
\* returns, in order
Primitive(c, values) ==
    CASE c.op = "percentile" -> <<percentile(SortFloat64s(values), c.p)>>
      [] c.op = "mean" -> <<mean(values)>>
      [] c.op = "stdDev" -> <<stdDev(values, mean(values))>>
      [] c.op = "iqr" -> calculateIQRBounds(values)
      [] c.op = "zscore" -> calculateZScoreBounds(values, c.threshold)

\* the slice that was passed, after the call: calculateIQRBounds sorts its
\* copy, and percentile, mean, stdDev and calculateZScoreBounds only read
ValuesAfter(c, values) ==
    IF c.op = "iqr" /\ Len(values) # 0 THEN SortedCopy(values).values ELSE values

-----------------------------------------------------------------------------
(* stats.ComputeStats *)

\* a types.DataPoint with its participant and condition given
LabelledPoint(t, participantID, condition, data) ==
    [Timestamp |-> t, Data |-> data, ParticipantID |-> participantID,
     Condition |-> condition]

StatsConfig(analyzeColumns, byCondition, byParticipant) ==
    [AnalyzeColumns |-> analyzeColumns, ByCondition |-> byCondition,
     ByParticipant |-> byParticipant]

\* the zero value of ColumnStats with the fields lines 123-128 set
NewColumnStats(col, count) ==
    [Column |-> col, Mean |-> F(0), Median |-> F(0), StdDev |-> F(0),
     Min |-> PosInf, Max |-> NegInf, Count |-> count, MissingCount |-> 0,
     OutlierCount |-> 0, OutlierMethod |-> "", ZScoreThreshold |-> F(0)]

\* a map[string][]ColumnStats with no entry
NoStats == [key \in {} |-> <<>>]

\* the report of line 48-51; a nil OverallStats is the empty sequence
NewStatsReport ==
    [OverallStats |-> <<>>, ConditionStats |-> NoStats, ParticipantStats |-> NoStats]

StatsFail(err) == [nil |-> TRUE, report |-> NewStatsReport, err |-> err]

\* the test of line 190
StatsValuePresent(p, col) == col \in DOMAIN p.Data /\ ~IsNaN(p.Data[col])

\* the loop of lines 189-193, from point i on
RECURSIVE StatsExtractFrom(_, _, _)
StatsExtractFrom(points, col, i) ==
    IF i > Len(points)
    THEN <<>>
    ELSE (IF StatsValuePresent(points[i], col) THEN <<points[i].Data[col]>> ELSE <<>>)
         \o StatsExtractFrom(points, col, i + 1)

\* stats.extractColumnValues (lines 187-195)
statsExtractColumnValues(points, col) == StatsExtractFrom(points, col, 1)

\* the loop of lines 131-144, from value i on: acc holds stats, sum and sumSq
RECURSIVE Accumulate(_, _, _)
Accumulate(values, i, acc) ==
    IF i > Len(values)
    THEN acc
    ELSE LET v == values[i]
             s == acc.stats
         IN  IF IsNaN(v)
             THEN Accumulate(values, i + 1,
                     [acc EXCEPT !.stats.MissingCount = s.MissingCount + 1])
             ELSE Accumulate(values, i + 1,
                     [stats |-> [s EXCEPT !.Min = IF FLt(v, s.Min) THEN v ELSE s.Min,
                                          !.Max = IF FGt(v, s.Max) THEN v ELSE s.Max],
                      sum |-> FAdd(v, acc.sum),
                      sumSq |-> FAdd(FMul(v, v), acc.sumSq)])

\* a / float64(m) for an int m >= 0 and a finite or NaN a
FDivCount(a, m) ==
    IF m = 0
    THEN IF a.k = "fin" /\ a.n > 0 THEN PosInf
         ELSE IF a.k = "fin" /\ a.n < 0 THEN NegInf ELSE NaN
    ELSE FDivInt(a, m)

\* lines 148-153: the values that are not NaN
RECURSIVE NonNaN(_)
NonNaN(values) ==
    IF values = <<>>
    THEN <<>>
    ELSE (IF IsNaN(Head(values)) THEN <<>> ELSE <<Head(values)>>) \o NonNaN(Tail(values))

\* lines 155-160, for a sorted sequence with an element
MedianOf(sortedValues) ==
    LET mid == Len(sortedValues) \div 2
    IN  IF Len(sortedValues) % 2 = 0
        THEN FDivInt(FAdd(sortedValues[mid], sortedValues[mid + 1]), 2)
        ELSE sortedValues[mid + 1]

\* math.Abs((v - mean) / stdDev) > zThreshold for stdDev = sqrt(variance) > 0,
\* stated on the squares
ZScoreExceeds(v, m, variance, zThreshold) ==
    LET dev == FSub(v, m)
    IN  FGt(FMul(dev, dev), FMul(FMul(zThreshold, zThreshold), variance))

\* the loop of lines 171-178, from value i on
RECURSIVE CountZOutliers(_, _, _, _, _)
CountZOutliers(values, i, m, variance, zThreshold) ==
    IF i > Len(values)
    THEN 0
    ELSE (IF ~IsNaN(values[i]) /\ ZScoreExceeds(values[i], m, variance, zThreshold)
          THEN 1 ELSE 0)
         + CountZOutliers(values, i + 1, m, variance, zThreshold)

\* the "Common threshold" of line 167
StatsZThreshold == F(3)

\* lines 123-179: the ColumnStats of a column with the values given
ColumnStatsOf(col, values) ==
    LET acc == Accumulate(values, 1,
                   [stats |-> NewColumnStats(col, Len(values)),
                    sum |-> F(0), sumSq |-> F(0)])
        n == acc.stats.Count - acc.stats.MissingCount
        m == FDivCount(acc.sum, n)
        sortedValues == SortFloat64s(NonNaN(values))
        variance == FSub(FDivCount(acc.sumSq, n), FMul(m, m))
        sd == Sqrt(variance)
        base == [acc.stats EXCEPT !.Mean = m,
                                  !.Median = MedianOf(sortedValues),
                                  !.StdDev = sd]
    IN  IF FGt(sd, F(0))
        THEN [base EXCEPT !.OutlierMethod = "z-score",
                          !.ZScoreThreshold = StatsZThreshold,
                          !.OutlierCount =
                              CountZOutliers(values, 1, m, variance, StatsZThreshold)]
        ELSE base

\* the loop of lines 117-182, from column i on
RECURSIVE ColumnStatsFrom(_, _, _)
ColumnStatsFrom(points, columns, i) ==
    IF i > Len(columns)
    THEN <<>>
    ELSE LET values == statsExtractColumnValues(points, columns[i])
         IN  (IF Len(values) = 0 THEN <<>> ELSE <<ColumnStatsOf(columns[i], values)>>)
             \o ColumnStatsFrom(points, columns, i + 1)

computeColumnStats(ds, columns, config) == ColumnStatsFrom(ds.Points, columns, 1)

\* lines 60-63 and 83-86: an empty label files under "unknown"
KeyOf(label) == IF label = "" THEN "unknown" ELSE label

ConditionKey(p) == KeyOf(p.Condition)

ParticipantKey(p) == KeyOf(p.ParticipantID)

\* ConditionMap that assigns where line 64 appends: a key keeps its last
\* point only
ConditionMapOverwrites(points) ==
    [key \in {ConditionKey(points[i]) : i \in 1..Len(points)} |->
        LET Filed(p) == ConditionKey(p) = key
            filed == SelectSeq(points, Filed)
        IN  <<filed[Len(filed)]>>]

\* the conditionMap of lines 58-65: each key with its points, in their order
ConditionMap(points) ==
    [key \in {ConditionKey(points[i]) : i \in 1..Len(points)} |->
        LET Filed(p) == ConditionKey(p) = key IN SelectSeq(points, Filed)]

\* the participantMap of lines 81-88
ParticipantMap(points) ==
    [key \in {ParticipantKey(points[i]) : i \in 1..Len(points)} |->
        LET Filed(p) == ParticipantKey(p) = key IN SelectSeq(points, Filed)]

\* lines 67-77 and 90-100: the statistics of each partition, under its key
StatsByKey(partition, ds, config) ==
    [key \in DOMAIN partition |->
        computeColumnStats(Dataset(partition[key], ds.Columns),
                           config.AnalyzeColumns, config)]

\* OverallRequested with "not both" for "neither"
OverallRequestedUnlessBoth(config) == ~(config.ByCondition /\ config.ByParticipant)

\* line 103
OverallRequested(config) == ~config.ByCondition /\ ~config.ByParticipant

ComputeStats(ds, config) ==
    IF Len(ds.Points) = 0
    THEN StatsFail(ErrEmpty)
    ELSE
    LET conf == IF Len(config.AnalyzeColumns) = 0
                THEN [config EXCEPT !.AnalyzeColumns = ds.Columns]
                ELSE config
        report ==
            [OverallStats |->
                 IF OverallRequested(conf)
                 THEN computeColumnStats(ds, conf.AnalyzeColumns, conf)
                 ELSE <<>>,
             ConditionStats |->
                 IF conf.ByCondition
                 THEN StatsByKey(ConditionMap(ds.Points), ds, conf)
                 ELSE NoStats,
             ParticipantStats |->
                 IF conf.ByParticipant
                 THEN StatsByKey(ParticipantMap(ds.Points), ds, conf)
                 ELSE NoStats]
    IN  [nil |-> FALSE, report |-> report, err |-> ""]

-----------------------------------------------------------------------------
(* The core on Go's memory.  A slice is a header [arr, off, len, cap] on an *)
(* array of the heap (arr = 0: nil); a DataPoint in an array holds its     *)
(* Data as the reference of a map of the heap; a *types.Dataset is the     *)
(* index of a Dataset struct of the heap.  What the functions above        *)
(* compute from the values, the operators here place in memory.            *)

\* memory before anything is loaded
NoHeap == [points |-> <<>>, maps |-> <<>>, columns |-> <<>>, datasets |-> <<>>,
           reports |-> <<>>]

NilSlice == [arr |-> 0, off |-> 0, len |-> 0, cap |-> 0]

\* the elements of the slice s, as they lie in the array
Elements(h, s) == [i \in 1..s.len |-> h.points[s.arr][s.off + i]]

\* a DataPoint read from memory: its fields, the content of its map, and
\* the reference of that map
Deref(h, p) ==
    [Timestamp |-> p.Timestamp, Data |-> h.maps[p.Data],
     ParticipantID |-> p.ParticipantID, Condition |-> p.Condition, ref |-> p.Data]

\* the DataPoint struct of a point read by Deref: the map goes by reference
Struct(p) ==
    [Timestamp |-> p.Timestamp, Data |-> p.ref,
     ParticipantID |-> p.ParticipantID, Condition |-> p.Condition]

\* the points of the slice s, read from memory
PointsOf(h, s) == [i \in 1..s.len |-> Deref(h, Elements(h, s)[i])]

\* the dataset d points to, read from memory
Load(h, d) ==
    Dataset(PointsOf(h, h.datasets[d].Points), h.columns[h.datasets[d].Columns.arr])

\* a filter written as "filtered := points[:0]": the kept points overwrite
\* the array of the slice that is filtered
NewFilteredInPlace(h, points, kept) ==
    IF points.arr = 0
    THEN [heap |-> h, slice |-> NilSlice]
    ELSE [heap |-> [h EXCEPT !.points[points.arr] =
                       [i \in 1..Len(@) |->
                           IF i \in (points.off + 1)..(points.off + Len(kept))
                           THEN Struct(kept[i - points.off])
                           ELSE @[i]]],
          slice |-> [points EXCEPT !.len = Len(kept)]]

\* "var filtered []types.DataPoint" and an append for each kept point
\* (clean.go:61-75, 112-129): nil if none is kept, a new array otherwise;
\* the slice that is filtered is read only
NewFiltered(h, points, kept) ==
    IF Len(kept) = 0
    THEN [heap |-> h, slice |-> NilSlice]
    ELSE [heap |-> [h EXCEPT !.points =
                       Append(@, [i \in 1..Len(kept) |-> Struct(kept[i])])],
          slice |-> [arr |-> Len(h.points) + 1, off |-> 0,
                     len |-> Len(kept), cap |-> Len(kept)]]

\* a new Dataset struct
NewDataset(h, points, columns, metadata) ==
    [h EXCEPT !.datasets =
        Append(@, [Points |-> points, Columns |-> columns, Metadata |-> metadata])]

\* cleanedPoints after the missing-data filter (clean.go:33-36): the slice
\* it was given if the filter is off
MissingOnHeap(h, points, config) ==
    IF MissingFilterEnabled(config)
    THEN NewFiltered(h, points,
             filterMissingData(PointsOf(h, points), config.RequiredColumns,
                               config.MaxMissingPercent).points)
    ELSE [heap |-> h, slice |-> points]

\* cleanedPoints after outlier removal (clean.go:38-41): filterOutliers
\* returns the slice it was given if there are no columns (clean.go:83-85)
OutliersOnHeap(cleaned, config) ==
    IF config.RemoveOutliers /\ Len(config.RequiredColumns) # 0
    THEN NewFiltered(cleaned.heap, cleaned.slice,
             filterOutliers(PointsOf(cleaned.heap, cleaned.slice),
                            config.RequiredColumns, config.OutlierMethod,
                            config.ZScoreThreshold).points)
    ELSE cleaned

\* the cleaned dataset (clean.go:45-57): its points are cleanedPoints, its
\* columns the columns of the input
CleanedOnHeap(h, d, cleaned, result) ==
    [heap |-> NewDataset(cleaned.heap, cleaned.slice, h.datasets[d].Columns,
                         result.metadata),
     ret |-> [nil |-> FALSE, dataset |-> Len(h.datasets) + 1,
              stats |-> result.stats, err |-> ""]]

\* CleanDataset on the dataset d points to
CleanOnHeap(h, d, config) ==
    CleanedOnHeap(h, d,
        OutliersOnHeap(MissingOnHeap(h, h.datasets[d].Points, config), config),
        CleanDataset(Load(h, d), config))

\* dataset.Points[startFrame : endFrame+1] (part_001:86) on a slice header
Reslice(s, startFrame, endFrame) ==
    [arr |-> s.arr, off |-> s.off + startFrame,
     len |-> endFrame + 1 - startFrame, cap |-> s.cap - startFrame]

\* the clipped dataset (part_001:86-109): its points are a slice of the
\* input's points, its columns the columns of the input
ClippedOnHeap(h, d, result) ==
    IF result.nil
    THEN [heap |-> h,
          ret |-> [nil |-> TRUE, dataset |-> 0, info |-> result.info,
                   err |-> result.err]]
    ELSE [heap |-> NewDataset(h,
                      Reslice(h.datasets[d].Points, result.info.StartFrame,
                              result.info.EndFrame),
                      h.datasets[d].Columns, result.metadata),
          ret |-> [nil |-> FALSE, dataset |-> Len(h.datasets) + 1,
                   info |-> result.info, err |-> ""]]

\* ClipDataset on the dataset d points to
ClipOnHeap(h, d, config) == ClippedOnHeap(h, d, ClipDataset(Load(h, d), config))

\* the report (stats.go:48-51, 111): a new StatsReport
ReportedOnHeap(h, result) ==
    IF result.nil
    THEN [heap |-> h, ret |-> [nil |-> TRUE, report |-> 0, err |-> result.err]]
    ELSE [heap |-> [h EXCEPT !.reports = Append(@, result.report)],
          ret |-> [nil |-> FALSE, report |-> Len(h.reports) + 1, err |-> ""]]

\* ComputeStats on the dataset d points to
StatsOnHeap(h, d, config) == ReportedOnHeap(h, ComputeStats(Load(h, d), config))

\* the memory after the loader has read points with the channel maps given:
\* allPoints stays nil when no point is read (csv.go:29, 44)
Loaded(data) ==
    [points |-> IF Len(data) = 0
                THEN <<>>
                ELSE <<[i \in 1..Len(data) |->
                          [Timestamp |-> F(i - 1), Data |-> i,
                           ParticipantID |-> "P1", Condition |-> "c"]]>>,
     maps |-> data,
     columns |-> <<Columns>>,
     datasets |-> <<[Points |-> IF Len(data) = 0
                                THEN NilSlice
                                ELSE [arr |-> 1, off |-> 0, len |-> Len(data),
                                      cap |-> Len(data)],
                     Columns |-> [arr |-> 1, off |-> 0, len |-> Len(Columns),
                                  cap |-> Len(Columns)],
                     Metadata |-> [total_files |-> 1, total_points |-> Len(data)]]>>,
     reports |-> <<>>]

-----------------------------------------------------------------------------
(* Mean and standard deviation as float64 computes them: every operation   *)
(* rounds its exact result to the nearest value with a significand of      *)
(* Precision bits, ties to even.  float64 has 53 bits; the exponent is not *)
(* bounded here.                                                           *)

\* a > 0 times the power of base that brings it into [lowest, base * lowest)
RECURSIVE Normalise(_, _, _, _)
Normalise(a, base, lowest, e) ==
    IF FGe(a, F(base * lowest))
    THEN Normalise(FDivInt(a, base), base, lowest, e + 1)
    ELSE IF FLt(a, F(lowest))
         THEN Normalise(FMul(a, F(base)), base, lowest, e - 1)
         ELSE [v |-> a, e |-> e]

\* m * 2^e
Scale(m, e) == IF e >= 0 THEN Ratio(m * 2^e, 1) ELSE Ratio(m, 2^(-e))

\* the float64 nearest to the rational a
Round(a) ==
    IF a.k # "fin" \/ a.n = 0
    THEN a
    ELSE LET s == IF a.n < 0 THEN -1 ELSE 1
             z == Normalise(Ratio(s * a.n, a.d), 2, 2^(Precision - 1), 0)
             m == z.v.n \div z.v.d
             rest == 2 * z.v.n - (2 * m + 1) * z.v.d
             up == rest > 0 \/ (rest = 0 /\ m % 2 = 1)
         IN  Scale(s * (IF up THEN m + 1 ELSE m), z.e)

\* math.Sqrt(a) for a float64 a: NaN below zero, the float64 nearest to the
\* square root otherwise
SqrtRounded(a) ==
    IF a.k # "fin" \/ a.n < 0
    THEN NaN
    ELSE IF a.n = 0
         THEN a
         ELSE LET z == Normalise(a, 4, 4^(Precision - 1), 0)
                  m == CHOOSE i \in 2^(Precision - 1)..(2^Precision - 1) :
                          /\ i * i * z.v.d <= z.v.n
                          /\ (i + 1) * (i + 1) * z.v.d > z.v.n
                  up == 4 * z.v.n > (2 * m + 1) * (2 * m + 1) * z.v.d
              IN  Scale(IF up THEN m + 1 ELSE m, z.e)

\* sum and sumSq after the loop of stats.go:131-144 from values[i] on
RECURSIVE SumsFrom(_, _, _, _)
SumsFrom(values, i, sum, sumSq) ==
    IF i > Len(values)
    THEN [sum |-> sum, sumSq |-> sumSq]
    ELSE SumsFrom(values, i + 1, Round(FAdd(sum, values[i])),
                  Round(FAdd(sumSq, Round(FMul(values[i], values[i])))))

\* stats.Mean and stats.StdDev of computeColumnStats (stats.go:130-163) for
\* the values of a column, none of them NaN
StatsMeanStdDev(values) ==
    LET sums == SumsFrom(values, 1, F(0), F(0))
        Mean == Round(FDivInt(sums.sum, Len(values)))
        variance == Round(FSub(Round(FDivInt(sums.sumSq, Len(values))),
                               Round(FMul(Mean, Mean))))
    IN  [Mean |-> Mean, StdDev |-> SqrtRounded(variance)]

\* varianceSum after the loop of clean.go:210-212 from values[i] on
RECURSIVE VarianceSumFrom(_, _, _, _)
VarianceSumFrom(values, m, i, varianceSum) ==
    IF i > Len(values)
    THEN varianceSum
    ELSE LET dev == Round(FSub(values[i], m))
         IN  VarianceSumFrom(values, m, i + 1,
                             Round(FAdd(varianceSum, Round(FMul(dev, dev)))))

\* the cleaner's mean(values) and stdDev(values, mean) (clean.go:194-215)
CleanerMeanStdDev(values) ==
    LET m == Round(FDivInt(SumsFrom(values, 1, F(0), F(0)).sum, Len(values)))
        variance == Round(FDivInt(VarianceSumFrom(values, m, 1, F(0)), Len(values)))
    IN  [Mean |-> m, StdDev |-> SqrtRounded(variance)]

-----------------------------------------------------------------------------
(* The inputs *)

Timestamps == {F(i) : i \in 0..MaxT} \cup {NaN}

\* recordings whose samples differ in their timestamps only
ClipDatasets ==
    {Dataset([i \in 1..Len(ts) |-> DataPoint(ts[i], NoData)], Columns) :
        ts \in SeqsUpTo(Timestamps, MaxClipPoints)}

ClipBounds == {Absent} \cup {Some(F(i)) : i \in (-1)..(MaxT + 1)} \cup {Some(NaN)}

ClipConfigs == [StartTime : ClipBounds, EndTime : ClipBounds]

XValues == {F(v) : v \in 0..MaxValue} \cup {NaN}

YValues == {F(0)}

\* the channel maps of a sample: x and y each present or not
DataMaps ==
    UNION {{data \in [present -> XValues \cup YValues] :
                \A col \in present : data[col] \in (IF col = "x" THEN XValues ELSE YValues)} :
           present \in SUBSET {"x", "y"}}

\* recordings sampled once a second, whose samples differ in their channels
CleanDatasets ==
    {Dataset([i \in 1..Len(ds) |-> DataPoint(F(i - 1), ds[i])], Columns) :
        ds \in SeqsUpTo(DataMaps, MaxCleanPoints)}

RequiredColumnLists == {<<>>, <<"x">>, <<"x", "y">>}

MissingPercents == {NaN, F(-50), F(0), F(50), F(100)}

\* the command line's default, left in place when the method is not zscore
DefaultZThreshold == F(3)

\* a threshold that samples of a recording this short can exceed
ZThresholds == {F(1)}

CleanConfigs ==
    {[RequiredColumns |-> cols, RemoveOutliers |-> FALSE, OutlierMethod |-> "iqr",
      MaxMissingPercent |-> pct, ZScoreThreshold |-> DefaultZThreshold] :
        cols \in RequiredColumnLists, pct \in MissingPercents}
    \cup
    {[RequiredColumns |-> cols, RemoveOutliers |-> TRUE, OutlierMethod |-> method,
      MaxMissingPercent |-> pct, ZScoreThreshold |-> DefaultZThreshold] :
        cols \in RequiredColumnLists, pct \in MissingPercents, method \in {"iqr", "median"}}
    \cup
    {[RequiredColumns |-> cols, RemoveOutliers |-> TRUE, OutlierMethod |-> "zscore",
      MaxMissingPercent |-> pct, ZScoreThreshold |-> z] :
        cols \in RequiredColumnLists, pct \in MissingPercents, z \in ZThresholds}

\* the participant and the condition of a sample: a participant recorded
\* with no condition and under a condition, and another participant whose
\* condition is the word "unknown"
StatsLabels == {<<"P1", "">>, <<"P1", "A">>, <<"P2", "unknown">>}

StatsXValues == {F(0), F(1), NaN}

\* the channel maps of a labelled sample: x and y each present or not
StatsDataMaps ==
    UNION {{data \in [present -> StatsXValues \cup YValues] :
                \A col \in present :
                    data[col] \in (IF col = "x" THEN StatsXValues ELSE YValues)} :
           present \in SUBSET {"x", "y"}}

\* recordings of labelled samples, sampled once a second
StatsDatasets ==
    {Dataset([i \in 1..Len(ps) |->
                 LabelledPoint(F(i - 1), ps[i][1][1], ps[i][1][2], ps[i][2])], Columns) :
        ps \in SeqsUpTo(StatsLabels \X StatsDataMaps, MaxStatsPoints)}

AnalyzeColumnLists == {<<>>, <<"y", "x">>}

StatsConfigs ==
    {StatsConfig(cols, byCondition, byParticipant) :
        cols \in AnalyzeColumnLists, byCondition \in BOOLEAN, byParticipant \in BOOLEAN}

\* the values of a channel: numbers, and the infinities ParseFloat reads
\* from "Inf" and "-Inf"
RobustValues == {F(0), F(1), PosInf, NegInf}

\* recordings of one channel, present or not in each sample
RobustDatasets ==
    {Dataset([i \in 1..Len(ds) |-> DataPoint(F(i - 1), ds[i])], Columns) :
        ds \in SeqsUpTo({NoData} \cup {[col \in {"x"} |-> v] : v \in RobustValues},
                        MaxRobustPoints)}

\* recordings of whole numbers of one channel, in any order, with repeats
ExampleDatasets ==
    {Dataset([i \in 1..Len(vs) |-> DataPoint(F(i - 1), [col \in {"x"} |-> F(vs[i])])],
             Columns) :
        vs \in {<<1, 2, 3, 4>>, <<1, 2, 3>>, <<3, 1, 4, 2>>,
                <<1, 2, 3, 4, 5, 6, 7, 8, 9, 10>>, <<7, 3, 10, 1, 9, 5, 2, 8, 6, 4>>,
                <<2, 4, 4, 4, 5, 5, 7, 9>>}}

\* the percentiles calculateIQRBounds asks for, and the median
Percents == {25, 50, 75}

\* the channel maps of the recordings the outlier filter is run on: no
\* channel, x alone (NaN, 0 or 1), y alone, and x with a low or a high y
OutlierDataMaps ==
    {NoData}
    \cup {[col \in {"x"} |-> v] : v \in {NaN, F(0), F(1)}}
    \cup {[col \in {"y"} |-> F(1)]}
    \cup {[col \in {"x", "y"} |-> IF col = "x" THEN F(0) ELSE v] : v \in {F(0), F(1)}}

\* recordings long enough for a quartile to leave a value outside its bounds
OutlierDatasets ==
    {Dataset([i \in 1..Len(ds) |-> DataPoint(F(i - 1), ds[i])], Columns) :
        ds \in SeqsUpTo(OutlierDataMaps, MaxOutlierPoints)}

\* "median" stands for the method identifiers the switch does not know
OutlierMethods == {"iqr", "zscore", "median"}

\* outlier removal after a missing-data filter that is off, or on with a
\* budget of no missing column
OutlierConfigs ==
    {[RequiredColumns |-> cols, RemoveOutliers |-> TRUE, OutlierMethod |-> method,
      MaxMissingPercent |-> pct, ZScoreThreshold |-> z] :
        cols \in {<<"x">>, <<"x", "y">>}, method \in OutlierMethods,
        pct \in {F(0), F(25)}, z \in ZThresholds}

\* the channel maps of the recordings held in memory: x or nothing
HeapDataMaps == {NoData} \cup {[col \in {"x"} |-> v] : v \in {F(0), F(1)}}

HeapRecordings == SeqsUpTo(HeapDataMaps, MaxHeapPoints)

\* the missing-data filter off or on, outlier removal off or on
HeapCleanConfigs ==
    {[RequiredColumns |-> <<"x">>, RemoveOutliers |-> outliers, OutlierMethod |-> "zscore",
      MaxMissingPercent |-> pct, ZScoreThreshold |-> z] :
        outliers \in BOOLEAN, pct \in {F(0), F(50)}, z \in ZThresholds}

\* a bound between the first two samples, or none
HeapClipBounds == {Absent, Some(Ratio(1, 2))}

HeapClipConfigs == [StartTime : HeapClipBounds, EndTime : HeapClipBounds]

HeapStatsConfigs == {StatsConfig(<<"x">>, byCondition, FALSE) : byCondition \in BOOLEAN}

\* the values of a channel whose mean and standard deviation are taken:
\* float64s of few bits, close to one another
MomentValues == {F(6), F(7), F(9), F(10)}

MomentDatasets ==
    {Dataset([i \in 1..Len(vs) |-> DataPoint(F(i - 1), [col \in {"x"} |-> vs[i]])],
             Columns) :
        vs \in SeqsUpTo(MomentValues, MaxMomentPoints)}

-----------------------------------------------------------------------------
(* The state machine: a caller holds one dataset and calls the core on it *)

NoCall == [op |-> "none"]

InitClip ==
    /\ dataset \in ClipDatasets
    /\ call = NoCall
    /\ ret = NoCall
    /\ heap = NoHeap

Clip ==
    \E config \in ClipConfigs :
        /\ call.op = "none"
        /\ call' = [op |-> "clip", config |-> config]
        /\ ret' = ClipDataset(dataset, config)
        /\ UNCHANGED <<dataset, heap>>

\* the caller goes on with the dataset the last call returned
Pipe ==
    /\ call.op # "none"
    /\ ~ret.nil
    /\ dataset' = ret.dataset
    /\ call' = NoCall
    /\ ret' = NoCall
    /\ UNCHANGED heap

\* the caller drops what the last call returned and keeps its dataset
Drop ==
    /\ call.op # "none"
    /\ call' = NoCall
    /\ ret' = NoCall
    /\ UNCHANGED <<dataset, heap>>

NextClip == Clip \/ Pipe \/ Drop

SpecClip == InitClip /\ [][NextClip]_vars

InitClean ==
    /\ dataset \in CleanDatasets
    /\ call = NoCall
    /\ ret = NoCall
    /\ heap = NoHeap

Clean ==
    \E config \in CleanConfigs :
        /\ call.op = "none"
        /\ call' = [op |-> "clean", config |-> config]
        /\ ret' = CleanDataset(dataset, config)
        /\ UNCHANGED <<dataset, heap>>

NextClean == Clean \/ Pipe \/ Drop

SpecClean == InitClean /\ [][NextClean]_vars

InitStats ==
    /\ dataset \in StatsDatasets
    /\ call = NoCall
    /\ ret = NoCall
    /\ heap = NoHeap

Stats ==
    \E config \in StatsConfigs :
        /\ call.op = "none"
        /\ call' = [op |-> "stats", config |-> config]
        /\ ret' = ComputeStats(dataset, config)
        /\ UNCHANGED <<dataset, heap>>

NextStats == Stats \/ Drop

SpecStats == InitStats /\ [][NextStats]_vars

InitRobust ==
    /\ dataset \in RobustDatasets \cup ExampleDatasets
    /\ call = NoCall
    /\ ret = NoCall
    /\ heap = NoHeap

\* one of the primitives is called on the values of x
Compute(c) ==
    /\ call.op = "none"
    /\ call' = c
    /\ ret' = [nil |-> FALSE,
               value |-> Primitive(c, extractColumnValues(dataset.Points, "x")),
               values |-> ValuesAfter(c, extractColumnValues(dataset.Points, "x"))]
    /\ UNCHANGED <<dataset, heap>>

Percentile == \E p \in Percents : Compute([op |-> "percentile", p |-> p])

Mean == Compute([op |-> "mean"])

StdDev == Compute([op |-> "stdDev"])

IQRBounds == Compute([op |-> "iqr"])

ZScoreBounds == \E z \in ZThresholds : Compute([op |-> "zscore", threshold |-> z])

NextRobust == Percentile \/ Mean \/ StdDev \/ IQRBounds \/ ZScoreBounds \/ Drop

SpecRobust == InitRobust /\ [][NextRobust]_vars

InitOutlier ==
    /\ dataset \in OutlierDatasets
    /\ call = NoCall
    /\ ret = NoCall
    /\ heap = NoHeap

CleanOutliers ==
    \E config \in OutlierConfigs :
        /\ call.op = "none"
        /\ call' = [op |-> "clean", config |-> config]
        /\ ret' = CleanDataset(dataset, config)
        /\ UNCHANGED <<dataset, heap>>

NextOutlier == CleanOutliers \/ Drop

SpecOutlier == InitOutlier /\ [][NextOutlier]_vars

\* in memory: dataset is the *types.Dataset the caller passes, an index of
\* heap.datasets
InitHeap ==
    /\ \E data \in HeapRecordings : heap = Loaded(data)
    /\ dataset = 1
    /\ call = NoCall
    /\ ret = NoCall

\* the caller may hold on to the results of up to MaxCalls calls
MayCall == call.op = "none" /\ Len(heap.datasets) + Len(heap.reports) <= MaxCalls

\* the call returns: what it left in memory, and its results
Returns(result) ==
    /\ heap' = result.heap
    /\ ret' = result.ret
    /\ UNCHANGED dataset

CallClean ==
    \E config \in HeapCleanConfigs :
        /\ MayCall
        /\ call' = [op |-> "clean", config |-> config]
        /\ Returns(CleanOnHeap(heap, dataset, config))

CallClip ==
    \E config \in HeapClipConfigs :
        /\ MayCall
        /\ call' = [op |-> "clip", config |-> config]
        /\ Returns(ClipOnHeap(heap, dataset, config))

CallStats ==
    \E config \in HeapStatsConfigs :
        /\ MayCall
        /\ call' = [op |-> "stats", config |-> config]
        /\ Returns(StatsOnHeap(heap, dataset, config))

\* the caller goes on with one of the datasets it holds: the input, or the
\* result of any earlier call
Take ==
    \E d \in 1..Len(heap.datasets) :
        /\ call.op # "none"
        /\ dataset' = d
        /\ call' = NoCall
        /\ ret' = NoCall
        /\ UNCHANGED heap

NextHeap == CallClean \/ CallClip \/ CallStats \/ Take

SpecHeap == InitHeap /\ [][NextHeap]_vars

InitMoments ==
    /\ dataset \in MomentDatasets
    /\ call = NoCall
    /\ ret = NoCall
    /\ heap = NoHeap

\* computeColumnStats takes the mean and the standard deviation of x
ColumnMoments ==
    /\ call.op = "none"
    /\ call' = [op |-> "stats"]
    /\ ret' = [nil |-> FALSE,
               value |-> StatsMeanStdDev(extractColumnValues(dataset.Points, "x"))]
    /\ UNCHANGED <<dataset, heap>>

\* the cleaner takes the mean and the standard deviation of x
CleanerMoments ==
    /\ call.op = "none"
    /\ call' = [op |-> "clean"]
    /\ ret' = [nil |-> FALSE,
               value |-> CleanerMeanStdDev(extractColumnValues(dataset.Points, "x"))]
    /\ UNCHANGED <<dataset, heap>>

NextMoments == ColumnMoments \/ CleanerMoments \/ Drop

SpecMoments == InitMoments /\ [][NextMoments]_vars

-----------------------------------------------------------------------------
(* What the claims speak of, stated without the code's loops *)

TimestampsOf(points) == {points[i].Timestamp : i \in 1..Len(points)}

NonDecreasing(points) ==
    \A i, j \in 1..Len(points) : i < j => FLe(points[i].Timestamp, points[j].Timestamp)

\* the least timestamp, +Inf when no timestamp is a number
ObservedMin(points) ==
    IF \A t \in TimestampsOf(points) : IsNaN(t)
    THEN PosInf
    ELSE CHOOSE t \in TimestampsOf(points) :
            ~IsNaN(t) /\ \A u \in TimestampsOf(points) : IsNaN(u) \/ FLe(t, u)

\* the greatest timestamp, -Inf when no timestamp is a number
ObservedMax(points) ==
    IF \A t \in TimestampsOf(points) : IsNaN(t)
    THEN NegInf
    ELSE CHOOSE t \in TimestampsOf(points) :
            ~IsNaN(t) /\ \A u \in TimestampsOf(points) : IsNaN(u) \/ FGe(t, u)

BoundOutside(bound, points) ==
    /\ bound.given
    /\ FLt(bound.v, ObservedMin(points)) \/ FGt(bound.v, ObservedMax(points))

EffectiveStart(config, points) ==
    IF config.StartTime.given THEN config.StartTime.v ELSE ObservedMin(points)

EffectiveEnd(config, points) ==
    IF config.EndTime.given THEN config.EndTime.v ELSE ObservedMax(points)

\* the samples of points with start <= t <= end, in their order
Window(points, start, end) ==
    LET Inside(p) == FLe(start, p.Timestamp) /\ FLe(p.Timestamp, end)
    IN  SelectSeq(points, Inside)

StartCandidates(points, start) == {i \in 1..Len(points) : FGe(points[i].Timestamp, start)}

EndCandidates(points, end) == {i \in 1..Len(points) : FLe(points[i].Timestamp, end)}

SetMin(S) == CHOOSE x \in S : \A y \in S : x <= y

SetMax(S) == CHOOSE x \in S : \A y \in S : x >= y

Clipped == call.op = "clip" /\ Len(dataset.Points) > 0

OutOfBoundsErrors == {ErrStartOutOfBounds, ErrEndOutOfBounds}

-----------------------------------------------------------------------------
(* C1: a successful clip of a non-empty dataset with non-decreasing        *)
(* timestamps, for given bounds start < end, returns exactly the samples   *)
(* with start <= t <= end, in their original order.                        *)
C1_ClipReturnsWindow ==
    (/\ Clipped
     /\ ~ret.nil
     /\ NonDecreasing(dataset.Points)
     /\ call.config.StartTime.given
     /\ call.config.EndTime.given
     /\ FLt(call.config.StartTime.v, call.config.EndTime.v))
    => ret.dataset.Points =
         Window(dataset.Points, call.config.StartTime.v, call.config.EndTime.v)

\* a clip that keeps the sample at the requested start and the one at the
\* requested end, and drops a sample outside the window
C1_Witness ==
    /\ Clipped
    /\ ~ret.nil
    /\ NonDecreasing(dataset.Points)
    /\ call.config.StartTime.given
    /\ call.config.EndTime.given
    /\ Len(dataset.Points) = 3
    /\ Len(ret.dataset.Points) = 2
    /\ FEq(ret.dataset.Points[1].Timestamp, call.config.StartTime.v)
    /\ FEq(ret.dataset.Points[2].Timestamp, call.config.EndTime.v)

(* C2: on a non-empty dataset the clip fails with an out-of-bounds error,  *)
(* and returns no dataset, exactly when a given bound is below the         *)
(* observed minimum or above the observed maximum; a bound equal to the    *)
(* minimum or maximum, and an absent bound, are never rejected so.         *)
C2_OutOfBoundsExactly ==
    Clipped =>
        LET outside == \/ BoundOutside(call.config.StartTime, dataset.Points)
                       \/ BoundOutside(call.config.EndTime, dataset.Points)
        IN  /\ (ret.err \in OutOfBoundsErrors) <=> outside
            /\ outside => ret.nil
            /\ ret.err = ErrStartOutOfBounds
                   => BoundOutside(call.config.StartTime, dataset.Points)
            /\ ret.err = ErrEndOutOfBounds
                   => BoundOutside(call.config.EndTime, dataset.Points)

\* a rejected end bound above the maximum, the start bound being the minimum
C2_Witness ==
    /\ Clipped
    /\ call.config.StartTime.given
    /\ FEq(call.config.StartTime.v, ObservedMin(dataset.Points))
    /\ call.config.EndTime.given
    /\ FGt(call.config.EndTime.v, ObservedMax(dataset.Points))
    /\ ret.err = ErrEndOutOfBounds
    /\ ret.nil

(* C3: on a non-empty dataset whose given bounds are within the observed   *)
(* range, the clip fails with an invalid-range error, and returns no       *)
(* dataset, exactly when the effective end is <= the effective start; it   *)
(* never fails so when the effective end is > the effective start.         *)
C3_InvalidRangeExactly ==
    Clipped =>
        LET start == EffectiveStart(call.config, dataset.Points)
            end == EffectiveEnd(call.config, dataset.Points)
            inBounds == /\ ~BoundOutside(call.config.StartTime, dataset.Points)
                        /\ ~BoundOutside(call.config.EndTime, dataset.Points)
        IN  /\ inBounds => (ret.err = ErrInvalidRange <=> FLe(end, start))
            /\ ret.err = ErrInvalidRange => ret.nil /\ ~FGt(end, start)

\* a given start equal to the given end, both within the observed range
C3_Witness ==
    /\ Clipped
    /\ call.config.StartTime.given
    /\ call.config.EndTime.given
    /\ FEq(call.config.StartTime.v, call.config.EndTime.v)
    /\ FLt(ObservedMin(dataset.Points), call.config.StartTime.v)
    /\ FLt(call.config.EndTime.v, ObservedMax(dataset.Points))
    /\ ret.err = ErrInvalidRange
    /\ ret.nil

(* C4: once the bounds and range checks have passed, the clip fails with   *)
(* the no-data error, and returns no dataset, exactly when no sample has   *)
(* t >= start, no sample has t <= end, or the first sample with t >= start *)
(* comes after the last with t <= end; otherwise it succeeds with a        *)
(* non-empty output.                                                       *)
C4_NoDataExactly ==
    (Clipped /\ ret.err \notin (OutOfBoundsErrors \cup {ErrInvalidRange})) =>
        LET S == StartCandidates(dataset.Points, EffectiveStart(call.config, dataset.Points))
            E == EndCandidates(dataset.Points, EffectiveEnd(call.config, dataset.Points))
            unresolved == S = {} \/ E = {} \/ SetMin(S) > SetMax(E)
        IN  IF unresolved
            THEN ret.err = ErrNoData /\ ret.nil
            ELSE ret.err = "" /\ ~ret.nil /\ Len(ret.dataset.Points) >= 1

\* both frames exist, and the start frame comes after the end frame: the
\* window falls in a gap between two samples
C4_Witness ==
    /\ Clipped
    /\ ret.err = ErrNoData
    /\ NonDecreasing(dataset.Points)
    /\ StartCandidates(dataset.Points, call.config.StartTime.v) # {}
    /\ EndCandidates(dataset.Points, call.config.EndTime.v) # {}

(* C5 as stated: with both bounds absent, the clip of every non-empty      *)
(* dataset succeeds and returns all samples.                               *)
C5_AbsentBoundsAlwaysAll ==
    (Clipped /\ ~call.config.StartTime.given /\ ~call.config.EndTime.given)
    => ~ret.nil /\ ret.dataset.Points = dataset.Points

(* C5, amended: with both bounds absent, the clip of a non-empty dataset   *)
(* whose timestamps are all numbers and not all equal succeeds and returns *)
(* all samples; when all timestamps are equal (a single sample, say) it    *)
(* fails with the invalid-range error.                                     *)
C5_AbsentBoundsAll ==
    (/\ Clipped
     /\ ~call.config.StartTime.given
     /\ ~call.config.EndTime.given
     /\ \A t \in TimestampsOf(dataset.Points) : ~IsNaN(t))
    => IF FLt(ObservedMin(dataset.Points), ObservedMax(dataset.Points))
       THEN ~ret.nil /\ ret.err = "" /\ ret.dataset.Points = dataset.Points
       ELSE ret.nil /\ ret.err = ErrInvalidRange

\* an unordered recording clipped with no bounds, returned whole
C5_Witness ==
    /\ Clipped
    /\ ~call.config.StartTime.given
    /\ ~call.config.EndTime.given
    /\ ~NonDecreasing(dataset.Points)
    /\ \A t \in TimestampsOf(dataset.Points) : ~IsNaN(t)
    /\ ~ret.nil
    /\ Len(ret.dataset.Points) = 3

-----------------------------------------------------------------------------
(* What the cleaner's claims speak of *)

Cleaned == call.op = "clean"

\* a is b with some of its elements removed
RECURSIVE IsSubsequence(_, _)
IsSubsequence(a, b) ==
    \/ a = <<>>
    \/ /\ b # <<>>
       /\ IF Head(a) = Head(b)
          THEN IsSubsequence(Tail(a), Tail(b))
          ELSE IsSubsequence(a, Tail(b))

MissingOf(p, cols) == Cardinality({i \in 1..Len(cols) : IsMissing(p, cols[i])})

FiltersDisabled(config) ==
    ~FGt(config.MaxMissingPercent, F(0)) /\ ~config.RemoveOutliers

(* C6: the samples CleanDataset returns are the input's samples with some  *)
(* removed, in the input's order, none altered or repeated, and the        *)
(* returned Columns are the input's, whatever the filter settings.         *)
C6_CleanKeepsOrderAndColumns ==
    Cleaned =>
        /\ ~ret.nil
        /\ IsSubsequence(ret.dataset.Points, dataset.Points)
        /\ ret.dataset.Columns = dataset.Columns

\* the outlier filter has removed the middle one of three samples
C6_Witness ==
    /\ Cleaned
    /\ Len(dataset.Points) = 3
    /\ ret.stats.RemovedOutliers = 1
    /\ ret.dataset.Points = <<dataset.Points[1], dataset.Points[3]>>
    /\ dataset.Points[1] # dataset.Points[3]

(* C7: with MaxMissingPercent not > 0 and RemoveOutliers false,            *)
(* CleanDataset returns the input's samples in the input's order, for      *)
(* every RequiredColumns list, and reports RemovedMissing = 0,             *)
(* RemovedOutliers = 0 and FinalPoints = OriginalPoints.                   *)
C7_DisabledFiltersRoundTrip ==
    (Cleaned /\ FiltersDisabled(call.config)) =>
        /\ ret.dataset.Points = dataset.Points
        /\ ret.stats.RemovedMissing = 0
        /\ ret.stats.RemovedOutliers = 0
        /\ ret.stats.OriginalPoints = Len(dataset.Points)
        /\ ret.stats.FinalPoints = ret.stats.OriginalPoints

\* three samples returned untouched though one misses every required column
C7_Witness ==
    /\ Cleaned
    /\ FiltersDisabled(call.config)
    /\ Len(call.config.RequiredColumns) = 2
    /\ Len(dataset.Points) = 3
    /\ \E i \in 1..3 : MissingOf(dataset.Points[i], call.config.RequiredColumns) = 2
    /\ ret.dataset.Points = dataset.Points

(* C8: the missing-data filter applied to its own output, with the same    *)
(* RequiredColumns and MaxMissingPercent, removes nothing and returns the  *)
(* same sequence.  (With RemoveOutliers false and MaxMissingPercent > 0    *)
(* what CleanDataset returns is the missing-data filter's output.)         *)
C8_MissingFilterIdempotent ==
    (Cleaned /\ FGt(call.config.MaxMissingPercent, F(0)) /\ ~call.config.RemoveOutliers) =>
        filterMissingData(ret.dataset.Points, call.config.RequiredColumns,
                          call.config.MaxMissingPercent)
            = [points |-> ret.dataset.Points, removed |-> 0]

\* the filter has removed a sample and kept one that misses a column, within
\* the budget
C8_Witness ==
    /\ Cleaned
    /\ FGt(call.config.MaxMissingPercent, F(0))
    /\ ~call.config.RemoveOutliers
    /\ ret.stats.RemovedMissing >= 1
    /\ \E i \in 1..Len(ret.dataset.Points) :
          MissingOf(ret.dataset.Points[i], call.config.RequiredColumns) = 1

(* C9: FinalPoints of CleanDataset with RemoveOutliers = true is at most   *)
(* FinalPoints of CleanDataset on the same input with the same             *)
(* configuration but RemoveOutliers = false.                               *)
C9_OutlierRemovalMonotone ==
    (Cleaned /\ call.config.RemoveOutliers) =>
        ret.stats.FinalPoints
            <= CleanDataset(dataset, [call.config EXCEPT !.RemoveOutliers = FALSE]).stats.FinalPoints

\* outlier removal has removed a sample: strictly fewer final points
C9_Witness ==
    /\ Cleaned
    /\ call.config.RemoveOutliers
    /\ ret.stats.RemovedOutliers >= 1
    /\ ret.stats.FinalPoints
          < CleanDataset(dataset, [call.config EXCEPT !.RemoveOutliers = FALSE]).stats.FinalPoints

(* C10: for a dataset with zero samples the removal percentage in the      *)
(* output metadata is not the result of 0/0 (NaN): "no data" is signalled  *)
(* instead.                                                                *)
C10_NoDataSignalled ==
    (Cleaned /\ Len(dataset.Points) = 0) => ~IsNaN(ret.metadata.removal_percentage)

-----------------------------------------------------------------------------
(* What the statistics claims speak of *)

StatsComputed == call.op = "stats" /\ ~ret.nil

ConditionLabels(points) == {points[i].Condition : i \in 1..Len(points)}

\* the samples of points whose condition label is one of labels, in order
Carrying(points, labels) ==
    LET Labelled(p) == p.Condition \in labels IN SelectSeq(points, Labelled)

AnalyzedColumns(config, ds) ==
    IF Len(config.AnalyzeColumns) = 0 THEN ds.Columns ELSE config.AnalyzeColumns

\* the statistics of the samples of the dataset whose condition label is one
\* of labels
StatsOfCarrying(labels) ==
    computeColumnStats(Dataset(Carrying(dataset.Points, labels), dataset.Columns),
                       AnalyzedColumns(call.config, dataset), call.config)

(* C11 as stated: with ByCondition, the keys of ConditionStats are the     *)
(* condition labels occurring in the dataset, "unknown" standing for the   *)
(* empty label and present only if some sample has an empty label, and the *)
(* statistics under each key are those of the samples carrying that label. *)
C11_KeysAreTheLabels ==
    (StatsComputed /\ call.config.ByCondition) =>
        LET labels == ConditionLabels(dataset.Points)
            keys == DOMAIN ret.report.ConditionStats
        IN  /\ keys = (labels \ {""}) \cup (IF "" \in labels THEN {"unknown"} ELSE {})
            /\ "unknown" \in keys => "" \in labels
            /\ \A key \in keys :
                  ret.report.ConditionStats[key] =
                      StatsOfCarrying({IF key = "unknown" THEN "" ELSE key})

(* C11, amended: with ByCondition, the keys of ConditionStats are the      *)
(* condition labels occurring in the dataset with the empty label replaced *)
(* by "unknown"; the key "unknown" is present exactly when some sample has *)
(* an empty label or the label "unknown", and its statistics are those of  *)
(* the samples of both kinds together; the statistics under every other    *)
(* key are those of exactly the samples carrying that label.               *)
C11_KeysAreTheLabelsFiled ==
    (StatsComputed /\ call.config.ByCondition) =>
        LET labels == ConditionLabels(dataset.Points)
            keys == DOMAIN ret.report.ConditionStats
        IN  /\ keys = (labels \ {""}) \cup (IF "" \in labels THEN {"unknown"} ELSE {})
            /\ "unknown" \in keys <=> (labels \cap {"", "unknown"} # {})
            /\ \A key \in keys :
                  ret.report.ConditionStats[key] =
                      StatsOfCarrying(IF key = "unknown" THEN {"", "unknown"} ELSE {key})

\* a labelled and an unlabelled sample, each alone in its partition, with
\* different statistics of x
C11_Witness ==
    /\ StatsComputed
    /\ call.config.ByCondition
    /\ DOMAIN ret.report.ConditionStats = {"A", "unknown"}
    /\ ConditionLabels(dataset.Points) = {"A", ""}
    /\ \E i \in 1..Len(ret.report.ConditionStats["A"]),
          j \in 1..Len(ret.report.ConditionStats["unknown"]) :
          /\ ret.report.ConditionStats["A"][i].Column = "x"
          /\ ret.report.ConditionStats["unknown"][j].Column = "x"
          /\ ret.report.ConditionStats["A"][i].Count = 1
          /\ ret.report.ConditionStats["A"][i].Mean
                 # ret.report.ConditionStats["unknown"][j].Mean

\* the samples of points with the participant given, in order
OfParticipant(points, participantID) ==
    LET Recorded(p) == p.ParticipantID = participantID IN SelectSeq(points, Recorded)

-----------------------------------------------------------------------------
(* What the claim on the numeric primitives speaks of *)

Primitives == {"percentile", "mean", "stdDev", "iqr", "zscore"}

ValuesOfX(ds) == extractColumnValues(ds.Points, "x")

ComputedOnNothing == call.op \in Primitives /\ ValuesOfX(dataset) = <<>>

(* C13: percentile, mean, stdDev and the IQR and z-score bounds, applied   *)
(* to an empty value sequence, yield a result that is not zero and that    *)
(* differs from every result the same call computes from a non-empty       *)
(* sequence: a marker of "undefined", not a number that passes for one.    *)
C13_EmptyYieldsUndefined ==
    ComputedOnNothing =>
        /\ \A i \in 1..Len(ret.value) : ret.value[i] # F(0)
        /\ \A ds \in RobustDatasets :
              ValuesOfX(ds) # <<>> => Primitive(call, ValuesOfX(ds)) # ret.value

-----------------------------------------------------------------------------
(* C15: on every successful clip, StartFrame is the smallest index of the  *)
(* input whose timestamp is >= the effective start, EndFrame the largest   *)
(* index whose timestamp is <= the effective end (indices from 0), the     *)
(* output is the input's slice [StartFrame, EndFrame] with the input's     *)
(* column list, ClippedPoints = EndFrame - StartFrame + 1 >= 1,            *)
(* OriginalPoints is the input's length, and ActualStartTime and           *)
(* ActualEndTime are the timestamps of the first and last retained sample. *)
C15_ClipInfoConsistent ==
    (Clipped /\ ~ret.nil) =>
        LET S == StartCandidates(dataset.Points, EffectiveStart(call.config, dataset.Points))
            E == EndCandidates(dataset.Points, EffectiveEnd(call.config, dataset.Points))
            info == ret.info
            out == ret.dataset.Points
        IN  /\ S # {} /\ E # {}
            /\ info.StartFrame = SetMin(S) - 1
            /\ info.EndFrame = SetMax(E) - 1
            /\ Len(out) = info.EndFrame - info.StartFrame + 1
            /\ \A i \in 1..Len(out) : out[i] = dataset.Points[info.StartFrame + i]
            /\ ret.dataset.Columns = dataset.Columns
            /\ info.ClippedPoints = info.EndFrame - info.StartFrame + 1
            /\ info.ClippedPoints >= 1
            /\ info.OriginalPoints = Len(dataset.Points)
            /\ info.ActualStartTime = out[1].Timestamp
            /\ info.ActualEndTime = out[Len(out)].Timestamp

\* a window that falls between samples on both sides: the only retained
\* sample is the middle one, and the actual times differ from the requested
C15_Witness ==
    /\ Clipped
    /\ ~ret.nil
    /\ call.config.StartTime.given
    /\ call.config.EndTime.given
    /\ ret.info.StartFrame = 1
    /\ ret.info.EndFrame = 1
    /\ ret.info.OriginalPoints = 3
    /\ FGt(ret.info.ActualStartTime, call.config.StartTime.v)
    /\ FLt(ret.info.ActualEndTime, call.config.EndTime.v)

-----------------------------------------------------------------------------
\* floor(count * pct / 100) for a percentage pct > 0: the largest whole
\* number b with b * 100 <= count * pct
MissingBudget(count, pct) ==
    CHOOSE b \in 0..(count * pct.n) :
        /\ b * 100 * pct.d <= count * pct.n
        /\ (b + 1) * 100 * pct.d > count * pct.n

\* the sample p is to be removed for missing data
OverBudget(p, config) ==
    /\ FGt(config.MaxMissingPercent, F(0))
    /\ MissingOf(p, config.RequiredColumns)
          > MissingBudget(Len(config.RequiredColumns), config.MaxMissingPercent)

(* C16: the missing-data filter removes a sample if and only if            *)
(* MaxMissingPercent > 0 and the number of RequiredColumns absent or NaN   *)
(* in the sample exceeds floor(len(RequiredColumns) * MaxMissingPercent /  *)
(* 100): RemovedMissing counts exactly those samples, and with outlier     *)
(* removal off the output is the input without them; with                  *)
(* MaxMissingPercent not > 0, or no RequiredColumns, none is removed.      *)
C16_MissingFilterExactly ==
    Cleaned =>
        LET points == dataset.Points
            Kept(p) == ~OverBudget(p, call.config)
        IN  /\ ret.stats.RemovedMissing =
                  Cardinality({i \in 1..Len(points) : OverBudget(points[i], call.config)})
            /\ IsSubsequence(ret.dataset.Points, SelectSeq(points, Kept))
            /\ ~call.config.RemoveOutliers =>
                  ret.dataset.Points = SelectSeq(points, Kept)
            /\ (~FGt(call.config.MaxMissingPercent, F(0))
                   \/ Len(call.config.RequiredColumns) = 0) =>
                  ret.stats.RemovedMissing = 0

\* two required columns and a budget of one: a sample without either is
\* removed, a sample with a NaN in one of them is kept
C16_Witness ==
    /\ Cleaned
    /\ ~call.config.RemoveOutliers
    /\ Len(call.config.RequiredColumns) = 2
    /\ FGt(call.config.MaxMissingPercent, F(0))
    /\ MissingBudget(2, call.config.MaxMissingPercent) = 1
    /\ ret.stats.RemovedMissing = 1
    /\ \E i \in 1..Len(dataset.Points) :
          MissingOf(dataset.Points[i], call.config.RequiredColumns) = 2
    /\ \E i \in 1..Len(ret.dataset.Points) :
          /\ "x" \in DOMAIN ret.dataset.Points[i].Data
          /\ IsNaN(ret.dataset.Points[i].Data["x"])

-----------------------------------------------------------------------------
(* What the outlier filter's claims speak of *)

\* the samples the missing-data filter leaves: the set the outlier filter
\* is run on
Survivors(points, config) ==
    LET enabled == FGt(config.MaxMissingPercent, F(0))
        budget == MissingBudget(Len(config.RequiredColumns), config.MaxMissingPercent)
        Kept(p) == ~enabled \/ MissingOf(p, config.RequiredColumns) <= budget
    IN  SelectSeq(points, Kept)

\* the values of col that are present and not NaN in points, in order
PresentValues(points, col) ==
    LET Has(p) == col \in DOMAIN p.Data /\ ~IsNaN(p.Data[col])
        having == SelectSeq(points, Has)
    IN  [i \in 1..Len(having) |-> having[i].Data[col]]

\* the bounds the method gives for values
MethodBounds(config, values) ==
    IF config.OutlierMethod = "zscore"
    THEN calculateZScoreBounds(values, config.ZScoreThreshold)
    ELSE calculateIQRBounds(values)

\* for each required column from the i-th on, whether the set has a value
\* of it, and if so the method's bounds of its values over the set
RECURSIVE ColumnBoundsFrom(_, _, _)
ColumnBoundsFrom(set, config, i) ==
    IF i > Len(config.RequiredColumns)
    THEN <<>>
    ELSE LET values == PresentValues(set, config.RequiredColumns[i])
         IN  <<IF values = <<>>
               THEN [checked |-> FALSE, bounds |-> <<NaN, NaN>>]
               ELSE [checked |-> TRUE, bounds |-> MethodBounds(config, values)]>>
             \o ColumnBoundsFrom(set, config, i + 1)

ColumnBounds(set, config) == ColumnBoundsFrom(set, config, 1)

\* p has, in a required column with a value in the set, a present value
\* strictly outside that column's bounds
OutsideBounds(p, config, columnBounds) ==
    \E i \in 1..Len(config.RequiredColumns) :
        /\ columnBounds[i].checked
        /\ config.RequiredColumns[i] \in DOMAIN p.Data
        /\ \/ FLt(p.Data[config.RequiredColumns[i]], columnBounds[i].bounds[1])
           \/ FGt(p.Data[config.RequiredColumns[i]], columnBounds[i].bounds[2])

OutliersRemoved == Cleaned /\ call.config.RemoveOutliers

(* C17: the outlier filter drops a sample if and only if, for at least one *)
(* required column that has a present non-NaN value in the filtered set,   *)
(* the sample has a present value strictly below the column's lower bound  *)
(* or strictly above its upper bound, the bounds being the z-score bounds  *)
(* for "zscore" and the IQR bounds for "iqr" and any other method; absent  *)
(* channels are not checked and a column without values removes no sample. *)
C17_OutlierFilterExactly ==
    OutliersRemoved =>
        LET set == Survivors(dataset.Points, call.config)
            columnBounds == ColumnBounds(set, call.config)
            Inside(p) == ~OutsideBounds(p, call.config, columnBounds)
            inside == SelectSeq(set, Inside)
        IN  /\ ret.dataset.Points = inside
            /\ ret.stats.RemovedOutliers = Len(set) - Len(inside)

\* the IQR bounds, asked for under an unknown method name, remove the one
\* sample whose y is high; its x, like every other, is within bounds
C17_Witness ==
    /\ OutliersRemoved
    /\ call.config.OutlierMethod = "median"
    /\ call.config.RequiredColumns = <<"x", "y">>
    /\ Len(dataset.Points) = 4
    /\ \A i \in 1..4 : "x" \in DOMAIN dataset.Points[i].Data
                         /\ dataset.Points[i].Data["x"] = F(0)
    /\ ret.stats.RemovedOutliers = 1
    /\ ret.dataset.Points = SubSeq(dataset.Points, 1, 3)

-----------------------------------------------------------------------------
(* C18: the missing-data filter runs before the outlier filter, and the    *)
(* outlier bounds come from the samples it left, not from the input:       *)
(* CleanDataset returns what it returns for the input with the samples     *)
(* removed for missing data taken out beforehand, whatever values those    *)
(* samples carry, and RemovedOutliers counts only samples the missing-data *)
(* filter left.                                                            *)
C18_OutliersAmongSurvivors ==
    OutliersRemoved =>
        LET set == Survivors(dataset.Points, call.config)
            alone == CleanDataset(Dataset(set, dataset.Columns), call.config)
        IN  /\ ret.stats.RemovedMissing = Len(dataset.Points) - Len(set)
            /\ alone.stats.RemovedMissing = 0
            /\ ret.dataset.Points = alone.dataset.Points
            /\ ret.stats.RemovedOutliers = alone.stats.RemovedOutliers
            /\ ret.stats.RemovedOutliers = Len(set) - Len(ret.dataset.Points)

\* a sample removed for missing data carries a value that, counted in the
\* bounds, would have kept a sample the outlier filter removes
C18_Witness ==
    /\ OutliersRemoved
    /\ ret.stats.RemovedMissing = 1
    /\ ret.stats.RemovedOutliers = 1
    /\ LET set == Survivors(dataset.Points, call.config)
           boundsOfInput == OutlierBounds(dataset.Points, call.config.RequiredColumns,
                                          call.config.OutlierMethod,
                                          call.config.ZScoreThreshold)
       IN  FilterOutliersFrom(set, 1, call.config.RequiredColumns, boundsOfInput).removed = 0

-----------------------------------------------------------------------------
(* What the claims on the lists of ColumnStats speak of *)

\* the samples of points filed under key by condition
FiledByCondition(points, key) ==
    Carrying(points, IF key = "unknown" THEN {"", "unknown"} ELSE {key})

\* the samples of points filed under key by participant
FiledByParticipant(points, key) ==
    LET Filed(p) == p.ParticipantID \in (IF key = "unknown" THEN {"", "unknown"} ELSE {key})
    IN  SelectSeq(points, Filed)

\* every partition of the report: its samples and its list of ColumnStats
Partitions ==
    (IF OverallRequested(call.config)
     THEN {[points |-> dataset.Points, stats |-> ret.report.OverallStats]}
     ELSE {})
    \cup {[points |-> FiledByCondition(dataset.Points, key),
           stats |-> ret.report.ConditionStats[key]] :
             key \in DOMAIN ret.report.ConditionStats}
    \cup {[points |-> FiledByParticipant(dataset.Points, key),
           stats |-> ret.report.ParticipantStats[key]] :
             key \in DOMAIN ret.report.ParticipantStats}

\* the indices of the samples of points with an entry for col, NaN or not
WithEntry(points, col) == {j \in 1..Len(points) : col \in DOMAIN points[j].Data}

\* the indices of the samples of points whose entry for col is NaN
WithNaN(points, col) == {j \in WithEntry(points, col) : IsNaN(points[j].Data[col])}

(* C19: in every ColumnStats, Count is the number of samples of the        *)
(* partition with an entry for the column, NaN entries included,           *)
(* MissingCount is the number of those entries that are NaN, and Mean is   *)
(* the sum of the others divided by Count - MissingCount.                  *)
C19_NaNEntriesCounted ==
    StatsComputed =>
        \A part \in Partitions :
            \A i \in 1..Len(part.stats) :
                LET st == part.stats[i]
                    values == PresentValues(part.points, st.Column)
                IN  /\ st.Count = Cardinality(WithEntry(part.points, st.Column))
                    /\ st.MissingCount = Cardinality(WithNaN(part.points, st.Column))
                    /\ st.Count - st.MissingCount = Len(values)
                    /\ st.Mean = FDivInt(Sum(values), Len(values))

(* C20: in every partition the ColumnStats are, in order, those of the     *)
(* analyzed columns (AnalyzeColumns, or the dataset's Columns when that is *)
(* empty) for which some sample of the partition has an entry; a column    *)
(* without any entry has no ColumnStats, and no ColumnStats has Count 0.   *)
C20_EntriesFollowAnalyzedColumns ==
    StatsComputed =>
        \A part \in Partitions :
            LET HasEntry(col) == WithEntry(part.points, col) # {}
                expected == SelectSeq(AnalyzedColumns(call.config, dataset), HasEntry)
            IN  /\ Len(part.stats) = Len(expected)
                /\ \A i \in 1..Len(part.stats) :
                      /\ part.stats[i].Column = expected[i]
                      /\ part.stats[i].Count >= 1

-----------------------------------------------------------------------------
(* C14 *)

\* what a holder of the dataset d sees in memory h: its samples, field by
\* field and channel by channel, and its columns
Seen(h, d) ==
    [Points |-> [i \in 1..h.datasets[d].Points.len |->
                    LET p == Elements(h, h.datasets[d].Points)[i]
                    IN  [Timestamp |-> p.Timestamp, Data |-> h.maps[p.Data],
                         ParticipantID |-> p.ParticipantID,
                         Condition |-> p.Condition]],
     Columns |-> [i \in 1..h.datasets[d].Columns.len |->
                    h.columns[h.datasets[d].Columns.arr][h.datasets[d].Columns.off + i]],
     Metadata |-> h.datasets[d].Metadata]

\* C14: no call of the core changes what it is given or what an earlier call
\* returned: over every step, each dataset that exists before the step, the
\* input and every earlier result, has the same samples, the same channel
\* maps and the same columns after it, and each report that exists before the
\* step is the same after it.
C14_NoMutation ==
    [][/\ Len(heap'.datasets) >= Len(heap.datasets)
       /\ Len(heap'.reports) >= Len(heap.reports)
       /\ \A d \in 1..Len(heap.datasets) : Seen(heap', d) = Seen(heap, d)
       /\ \A r \in 1..Len(heap.reports) : heap'.reports[r] = heap.reports[r]]_vars

\* a clip returned the tail of the input's own array, a later clean of the
\* input dropped a sample, and the input and the clip are as they were
C14_Witness ==
    /\ Len(heap.datasets) = 3
    /\ call.op = "clean"
    /\ dataset = 1
    /\ heap.datasets[2].Points.arr = heap.datasets[1].Points.arr
    /\ heap.datasets[2].Points.off > 0
    /\ heap.datasets[3].Points.len > 0
    /\ heap.datasets[3].Points.len < heap.datasets[1].Points.len
    /\ heap.datasets[3].Points.arr # heap.datasets[1].Points.arr
    /\ Seen(heap, 1).Points[1].Data = NoData
    /\ Seen(heap, 2).Points = Seen(heap, 3).Points

-----------------------------------------------------------------------------
(* C21 *)

\* the i-th smallest of values, counted with repeats: fewer than i values
\* lie below it and at least i values are not above it
Ranked(values, i) ==
    CHOOSE v \in {values[j] : j \in 1..Len(values)} :
        /\ Cardinality({j \in 1..Len(values) : FLt(values[j], v)}) < i
        /\ Cardinality({j \in 1..Len(values) : FLe(values[j], v)}) >= i

\* the p-th percentile by linear interpolation at rank k = (p/100)*(n-1),
\* ranks counted from 0: the value of rank k if k is whole, otherwise the
\* values of ranks floor(k) and ceil(k) weighted by the fractional part of k
Quantile(values, p) ==
    LET k100 == p * (Len(values) - 1)
        lo == k100 \div 100
        w == Ratio(k100 % 100, 100)
    IN  IF k100 % 100 = 0
        THEN Ranked(values, lo + 1)
        ELSE FAdd(FMul(Ranked(values, lo + 1), FSub(F(1), w)),
                  FMul(Ranked(values, lo + 2), w))

XIs(vs) == ValuesOfX(dataset) = [i \in 1..Len(vs) |-> F(vs[i])]

(* C21: on a non-empty sequence, sorted or not, calculateIQRBounds returns *)
(* Q1 - 1.5*IQR and Q3 + 1.5*IQR with IQR = Q3 - Q1, Q1 and Q3 the 25th    *)
(* and 75th percentiles by linear interpolation at rank (p/100)*(n-1) of   *)
(* the values in ascending order, and percentile of the sorted values is   *)
(* that percentile; the median of 1,2,3,4 is 2.5 and of 1,2,3 is 2; the    *)
(* values 1..10 have Q1 = 3.25, Q3 = 7.75 and bounds -3.5 and 14.5; the    *)
(* sequence passed is the same after the call.                             *)
C21_IQRBoundsByInterpolation ==
    LET values == ValuesOfX(dataset)
        q1 == Quantile(values, 25)
        q3 == Quantile(values, 75)
        iqr == FSub(q3, q1)
    IN  /\ (call.op = "iqr" /\ values # <<>>) =>
              /\ ret.value = <<FSub(q1, FMul(OneAndAHalf, iqr)),
                               FAdd(q3, FMul(OneAndAHalf, iqr))>>
              /\ ret.values = values
              /\ XIs(<<1, 2, 3, 4, 5, 6, 7, 8, 9, 10>>) =>
                    /\ q1 = Ratio(13, 4)
                    /\ q3 = Ratio(31, 4)
                    /\ ret.value = <<Ratio(-7, 2), Ratio(29, 2)>>
        /\ (call.op = "percentile" /\ values # <<>>) =>
              /\ ret.value = <<Quantile(values, call.p)>>
              /\ ret.values = values
              /\ (call.p = 50 /\ XIs(<<1, 2, 3, 4>>)) => ret.value = <<Ratio(5, 2)>>
              /\ (call.p = 50 /\ XIs(<<1, 2, 3>>)) => ret.value = <<F(2)>>

\* the bounds of the values 1..10 given out of order
C21_Witness ==
    /\ call.op = "iqr"
    /\ XIs(<<7, 3, 10, 1, 9, 5, 2, 8, 6, 4>>)
    /\ ret.value = <<Ratio(-7, 2), Ratio(29, 2)>>
    /\ ret.values = ValuesOfX(dataset)

-----------------------------------------------------------------------------
(* C22: for a column with n >= 1 values, none NaN, the Mean ComputeStats   *)
(* reports is sum/n and agrees with the cleaner's mean, and the StdDev it  *)
(* reports is a population standard deviation as the cleaner's two-pass    *)
(* stdDev is: a number that is not negative, and zero if the values are    *)
(* all the same.                                                           *)
C22_MeanAndPopulationStdDev ==
    call.op = "stats" =>
        LET values == ValuesOfX(dataset)
            cleaner == CleanerMeanStdDev(values)
        IN  /\ ret.value.Mean = cleaner.Mean
            /\ ~IsNaN(cleaner.StdDev)
            /\ ~IsNaN(ret.value.StdDev)
            /\ FGe(ret.value.StdDev, F(0))
            /\ (\A i \in 1..Len(values) : values[i] = values[1]) =>
                  ret.value.StdDev = F(0)

-----------------------------------------------------------------------------
(* C23: after every CleanDataset, OriginalPoints is the number of samples  *)
(* of the input and FinalPoints the number of samples of the output,       *)
(* RemovedMissing and RemovedOutliers are not negative, OriginalPoints =   *)
(* RemovedMissing + RemovedOutliers + FinalPoints, RemovedMissing is 0 if  *)
(* MaxMissingPercent is not above 0, and RemovedOutliers is 0 if           *)
(* RemoveOutliers is off or RequiredColumns is empty.                      *)
C23_CountersConsistent ==
    Cleaned =>
        /\ ~ret.nil
        /\ ret.stats.OriginalPoints = Len(dataset.Points)
        /\ ret.stats.FinalPoints = Len(ret.dataset.Points)
        /\ ret.stats.RemovedMissing >= 0
        /\ ret.stats.RemovedOutliers >= 0
        /\ ret.stats.OriginalPoints =
              ret.stats.RemovedMissing + ret.stats.RemovedOutliers + ret.stats.FinalPoints
        /\ ~FGt(call.config.MaxMissingPercent, F(0)) => ret.stats.RemovedMissing = 0
        /\ (~call.config.RemoveOutliers \/ call.config.RequiredColumns = <<>>) =>
              ret.stats.RemovedOutliers = 0

\* the missing-data filter removed a sample, and outlier removal, switched
\* on with a column to look at, removed none of the two that were left
C23_Witness ==
    /\ Cleaned
    /\ call.config.RemoveOutliers
    /\ call.config.RequiredColumns # <<>>
    /\ ret.stats.OriginalPoints = 3
    /\ ret.stats.RemovedMissing = 1
    /\ ret.stats.RemovedOutliers = 0
    /\ ret.stats.FinalPoints = 2
    /\ Len(ret.dataset.Points) = 2

====
